---- MODULE Spec2Model ----
(***************************************************************************)
(* Serial number allocation and indexing engine of Label-Master-3000:      *)
(* GestioneComponenti (component registry), GestoreSerialNumber (serial    *)
(* allocator) and GeneratoreExcel.crea_documento_con_componenti (batch     *)
(* run), all in src/business_logic.py.                                     *)
(*                                                                         *)
(* Python values are represented as follows.  A str is a TLA+ string, and  *)
(* None in a str position is the string None.  An Optional[int] is <<>>    *)
(* for None and <<v>> for the integer v.  A formatted text (a serial, a    *)
(* card-type label) is a sequence of strings, built the way the f-string   *)
(* builds it.  The index policy (int, list or None) is a tagged record.    *)
(***************************************************************************)
EXTENDS Integers, Sequences, FiniteSets, TLC

\* ------------------------------------------------------------------ bounds
MaxBus == 2          \* numero_bus ranges over 1..MaxBus
MaxQuantita == 2     \* quantita per bus ranges over 1..MaxQuantita
MaxSn == 3           \* no call is taken that would issue a counter above MaxSn
MaxRegistro == 2     \* no component is added to a registry of MaxRegistro entries
MaxUnita == 4        \* quantita per bus ranges over 1..MaxUnita in SpecIndice

\* ------------------------------------------------------------ value domains
None == "None"
Nessuno == <<>>
Nomi == {"SENSOR", "RELAY"}
Codici == {"ABC123", "XYZ789"}
Date == {[anno |-> 2025, mese |-> 10]}

\* Python truthiness of an Optional[str]
Truthy(s) == s # None /\ s # ""

PolicyNone == [tipo |-> "none", num |-> 0, lista |-> <<>>]
PolicyInt(o) == [tipo |-> "int", num |-> o, lista |-> <<>>]
PolicyList(l) == [tipo |-> "list", num |-> 0, lista |-> l]

\* ------------------------------------------------------ text formatting
cifre == <<"0", "1", "2", "3", "4", "5", "6", "7", "8", "9">>

RECURSIVE str_nat(_)
str_nat(n) ==
    IF n < 10 THEN <<cifre[n + 1]>>
    ELSE str_nat(n \div 10) \o <<cifre[(n % 10) + 1]>>

\* str(n) of a Python int
str(n) == IF n < 0 THEN <<"-">> \o str_nat(-n) ELSE str_nat(n)

RECURSIVE zeri(_)
zeri(k) == IF k <= 0 THEN <<>> ELSE <<"0">> \o zeri(k - 1)

\* the format spec 0{w}d: the sign first, then zeros up to a total width of w
formato_0d(n, w) ==
    IF n < 0
    THEN <<"-">> \o zeri(w - 1 - Len(str_nat(-n))) \o str_nat(-n)
    ELSE zeri(w - Len(str_nat(n))) \o str_nat(n)

lettere == <<"A", "B", "C", "D", "E", "F", "G", "H", "I", "J", "K", "L">>

\* the letters counted from month 0
get_mese_lettera_sfasata(mese) == lettere[(mese % 12) + 1]

get_mese_lettera(mese) == lettere[mese]

\* sn = f"{mese_lettera}{anno:02d} {numero_incrementale:05d}"
formato_sn(ora, n) ==
    <<get_mese_lettera(ora.mese)>> \o formato_0d(ora.anno % 100, 2)
        \o <<" ">> \o formato_0d(n, 5)

\* ------------------------------------------------------ serial allocator
numero_incrementale_sempre_incrementa(st, descrizione, sn_iniziale) ==
    IF descrizione \in DOMAIN st THEN st[descrizione].ultimo_sn + 1
    ELSE IF sn_iniziale # Nessuno THEN sn_iniziale[1]
    ELSE 0

numero_incrementale_riparte_da_uno(st, descrizione, sn_iniziale) ==
    IF sn_iniziale # Nessuno THEN sn_iniziale[1]
    ELSE IF descrizione \in DOMAIN st THEN st[descrizione].ultimo_sn + 1
    ELSE 1

numero_incrementale_ripete(st, descrizione, sn_iniziale) ==
    IF sn_iniziale # Nessuno THEN sn_iniziale[1]
    ELSE IF descrizione \in DOMAIN st THEN st[descrizione].ultimo_sn
    ELSE 0

numero_incrementale_azzera(st, descrizione, sn_iniziale) ==
    IF sn_iniziale # Nessuno THEN sn_iniziale[1]
    ELSE 0

numero_incrementale(st, descrizione, sn_iniziale) ==
    IF sn_iniziale # Nessuno THEN sn_iniziale[1]
    ELSE IF descrizione \in DOMAIN st THEN st[descrizione].ultimo_sn + 1
    ELSE 0

stato_aggiornato_solo_corrente(st, ora, descrizione, n, code_12nc) ==
    [d \in {descrizione} |->
        [ultimo_sn |-> n, data_ultimo_utilizzo |-> ora, code_12nc |-> code_12nc]]

\* self.stato[descrizione] = {...}: the whole entry is replaced
stato_aggiornato(st, ora, descrizione, n, code_12nc) ==
    [d \in DOMAIN st \cup {descrizione} |->
        IF d = descrizione
        THEN [ultimo_sn |-> n, data_ultimo_utilizzo |-> ora, code_12nc |-> code_12nc]
        ELSE st[d]]

get_ultimo_sn(st, descrizione) ==
    IF descrizione \in DOMAIN st THEN st[descrizione].ultimo_sn ELSE -1

salva_mai(ok, memoria, file) == file

\* _salva_stato / _salva_componenti: the file takes the in-memory value when
\* the write succeeds; a failed write is caught and only printed
salva(ok, memoria, file) == IF ok THEN memoria ELSE file

\* _carica_stato: what json.load gives for the state file ({} when the file
\* is missing); file_stato holds the document as json.load reads it
carica_stato(file) == file

\* ---------------------------------------------------- component registry
\* _carica_componenti: an entry of the file that has no key
\* 'inizio_indicizzazione_prefisso' gets it, with the value None
migrazione_necessaria(file) ==
    \E i \in 1..Len(file) : "inizio_indicizzazione_prefisso" \notin DOMAIN file[i]

carica_componenti_senza_migrazione(file) == file

carica_componenti(file) ==
    [i \in 1..Len(file) |->
        IF "inizio_indicizzazione_prefisso" \in DOMAIN file[i]
        THEN file[i]
        ELSE [k \in DOMAIN file[i] \cup {"inizio_indicizzazione_prefisso"} |->
                IF k \in DOMAIN file[i] THEN file[i][k] ELSE PolicyNone]]

\* position of the first entry named nome, 0 when there is none
\* (cerca_componente_per_nome returns that entry, or None)
cerca_componente_per_nome(comps, nome) ==
    IF \E i \in 1..Len(comps) : comps[i].nome = nome
    THEN CHOOSE i \in 1..Len(comps) :
            /\ comps[i].nome = nome
            /\ \A j \in 1..(i - 1) : comps[j].nome # nome
    ELSE 0

\* the add that replaces the entry of a name already there
aggiungi_componente_sostituisce(comps, componente) ==
    LET i == cerca_componente_per_nome(comps, componente.nome)
    IN  IF i # 0 THEN [comps EXCEPT ![i] = componente]
        ELSE Append(comps, componente)

aggiungi_componente(comps, componente) ==
    IF cerca_componente_per_nome(comps, componente.nome) # 0 THEN comps
    ELSE Append(comps, componente)

\* the update that adds the record when no entry is named nome_originale
modifica_componente_o_aggiunge(comps, nome_originale, componente) ==
    LET i == cerca_componente_per_nome(comps, nome_originale)
    IN  IF i = 0 THEN Append(comps, componente)
        ELSE [comps EXCEPT ![i] = componente]

\* the first entry named nome_originale is replaced by the new record
modifica_componente(comps, nome_originale, componente) ==
    LET i == cerca_componente_per_nome(comps, nome_originale)
    IN  IF i = 0 THEN comps ELSE [comps EXCEPT ![i] = componente]

elimina_componente(comps, nome) == SelectSeq(comps, LAMBDA c : c.nome # nome)

aggiorna_sn_iniziale_tutti(comps, nome, nuovo_sn) ==
    IF cerca_componente_per_nome(comps, nome) = 0 THEN comps
    ELSE [i \in 1..Len(comps) |-> [comps[i] EXCEPT !.sn_iniziale = <<nuovo_sn>>]]

aggiorna_sn_iniziale(comps, nome, nuovo_sn) ==
    LET i == cerca_componente_per_nome(comps, nome)
    IN  IF i = 0 THEN comps ELSE [comps EXCEPT ![i].sn_iniziale = <<nuovo_sn>>]

\* ------------------------------------------------------------ batch run
\* preprocessing of one requested component (first loop of
\* crea_documento_con_componenti)
manca_code_12nc_solo_vuoto(st, componente) ==
    componente.nome \notin DOMAIN st /\ componente.code_12nc = ""

manca_code_12nc(st, componente) ==
    componente.nome \notin DOMAIN st /\ ~Truthy(componente.code_12nc)

code_12nc_finale(st, componente) ==
    IF componente.nome \in DOMAIN st
    THEN IF Truthy(componente.code_12nc) THEN componente.code_12nc
         ELSE st[componente.nome].code_12nc
    ELSE componente.code_12nc

prossimo_sn_senza_incremento(st, componente) ==
    IF componente.sn_iniziale # Nessuno THEN componente.sn_iniziale[1]
    ELSE IF componente.nome \in DOMAIN st THEN st[componente.nome].ultimo_sn
    ELSE 0

prossimo_sn(st, componente) ==
    IF componente.sn_iniziale # Nessuno THEN componente.sn_iniziale[1]
    ELSE IF componente.nome \in DOMAIN st THEN st[componente.nome].ultimo_sn + 1
    ELSE 0

comp_info_di(st, componente) ==
    [nome |-> componente.nome,
     quantita |-> componente.quantita,
     prossimo_sn |-> prossimo_sn(st, componente),
     prefisso_tipo_scheda |-> componente.prefisso_tipo_scheda,
     code_12nc |-> code_12nc_finale(st, componente),
     indicizzazione |-> componente.indicizzazione,
     inizio_indicizzazione_prefisso |-> componente.inizio_indicizzazione_prefisso]

calcola_componenti(st, comps) ==
    [i \in 1..Len(comps) |-> comp_info_di(st, comps[i])]

\* the index counted from 0 when no inizio_indicizzazione_prefisso is given
numero_indic_da_zero(inizio_indic, elemento_idx) ==
    IF inizio_indic.tipo = "list" /\ Len(inizio_indic.lista) > 0
    THEN inizio_indic.lista[(elemento_idx % Len(inizio_indic.lista)) + 1]
    ELSE IF inizio_indic.tipo = "int" THEN inizio_indic.num + elemento_idx
    ELSE elemento_idx

\* the index taken from a list without going round: past its end, its last
\* value
numero_indic_senza_ciclo(inizio_indic, elemento_idx) ==
    IF inizio_indic.tipo = "list" /\ Len(inizio_indic.lista) > 0
    THEN inizio_indic.lista[IF elemento_idx < Len(inizio_indic.lista)
                            THEN elemento_idx + 1 ELSE Len(inizio_indic.lista)]
    ELSE IF inizio_indic.tipo = "int" THEN inizio_indic.num + elemento_idx
    ELSE elemento_idx + 1

\* index of a unit from the policy and its position within the bus
numero_indic(inizio_indic, elemento_idx) ==
    IF inizio_indic.tipo = "list" /\ Len(inizio_indic.lista) > 0
    THEN inizio_indic.lista[(elemento_idx % Len(inizio_indic.lista)) + 1]
    ELSE IF inizio_indic.tipo = "int" THEN inizio_indic.num + elemento_idx
    ELSE elemento_idx + 1

\* the numero_indic the loop computes for a unit, Nessuno when it computes none
numero_indic_di(comp_info, elemento_idx) ==
    IF Truthy(comp_info.prefisso_tipo_scheda) /\ comp_info.indicizzazione
    THEN <<numero_indic(comp_info.inizio_indicizzazione_prefisso, elemento_idx)>>
    ELSE Nessuno

\* the label that carries the index whether or not indicizzazione is on
tipo_scheda_sempre_indicizzato(comp_info, elemento_idx) ==
    IF Truthy(comp_info.prefisso_tipo_scheda)
    THEN <<comp_info.prefisso_tipo_scheda>>
            \o str(numero_indic(comp_info.inizio_indicizzazione_prefisso, elemento_idx))
    ELSE <<>>

tipo_scheda_di(comp_info, elemento_idx) ==
    IF Truthy(comp_info.prefisso_tipo_scheda)
    THEN IF comp_info.indicizzazione
         THEN <<comp_info.prefisso_tipo_scheda>>
                \o str(numero_indic(comp_info.inizio_indicizzazione_prefisso, elemento_idx))
         ELSE <<comp_info.prefisso_tipo_scheda>>
    ELSE <<>>

\* arguments of the genera_serial_number call made for one unit
sn_passato_sempre(primo, comp_info) == <<comp_info.prossimo_sn>>

sn_passato(primo, comp_info) == IF primo THEN <<comp_info.prossimo_sn>> ELSE Nessuno
code_passato(primo, comp_info) == IF primo THEN comp_info.code_12nc ELSE None

\* the write-back with the stored ultimo_sn itself as the new sn_iniziale
RECURSIVE sincronizza_senza_incremento(_, _, _)
sincronizza_senza_incremento(comps, st, richiesti) ==
    IF richiesti = <<>> THEN comps
    ELSE LET componente == Head(richiesti)
             i == cerca_componente_per_nome(comps, componente.nome)
             dopo ==
                IF componente.nome \in DOMAIN st /\ i # 0
                THEN [comps EXCEPT
                        ![i].sn_iniziale = <<st[componente.nome].ultimo_sn>>,
                        ![i].inizio_indicizzazione_prefisso =
                            componente.inizio_indicizzazione_prefisso]
                ELSE comps
         IN  sincronizza_senza_incremento(dopo, st, Tail(richiesti))

\* the write-back that keeps the stored inizio_indicizzazione_prefisso when
\* the request gives none
RECURSIVE sincronizza_conserva_indice(_, _, _)
sincronizza_conserva_indice(comps, st, richiesti) ==
    IF richiesti = <<>> THEN comps
    ELSE LET componente == Head(richiesti)
             i == cerca_componente_per_nome(comps, componente.nome)
             dopo ==
                IF componente.nome \in DOMAIN st /\ i # 0
                THEN [comps EXCEPT
                        ![i].sn_iniziale = <<st[componente.nome].ultimo_sn + 1>>,
                        ![i].inizio_indicizzazione_prefisso =
                            IF componente.inizio_indicizzazione_prefisso = PolicyNone
                            THEN comps[i].inizio_indicizzazione_prefisso
                            ELSE componente.inizio_indicizzazione_prefisso]
                ELSE comps
         IN  sincronizza_conserva_indice(dopo, st, Tail(richiesti))

RECURSIVE sincronizza_copia_richiesta(_, _, _)
sincronizza_copia_richiesta(comps, st, richiesti) ==
    IF richiesti = <<>> THEN comps
    ELSE LET componente == Head(richiesti)
             i == cerca_componente_per_nome(comps, componente.nome)
             dopo ==
                IF componente.nome \in DOMAIN st /\ i # 0
                THEN [comps EXCEPT
                        ![i].sn_iniziale = <<st[componente.nome].ultimo_sn + 1>>,
                        ![i].prefisso_tipo_scheda = componente.prefisso_tipo_scheda,
                        ![i].indicizzazione = componente.indicizzazione,
                        ![i].inizio_indicizzazione_prefisso =
                            componente.inizio_indicizzazione_prefisso]
                ELSE comps
         IN  sincronizza_copia_richiesta(dopo, st, Tail(richiesti))

\* the registry after the final synchronisation loop over the request list
RECURSIVE sincronizza(_, _, _)
sincronizza(comps, st, richiesti) ==
    IF richiesti = <<>> THEN comps
    ELSE LET componente == Head(richiesti)
             i == cerca_componente_per_nome(comps, componente.nome)
             dopo ==
                IF componente.nome \in DOMAIN st /\ i # 0
                THEN modifica_componente(comps, componente.nome,
                        [nome |-> comps[i].nome,
                         code_12nc |-> comps[i].code_12nc,
                         sn_iniziale |-> <<st[componente.nome].ultimo_sn + 1>>,
                         prefisso_tipo_scheda |-> comps[i].prefisso_tipo_scheda,
                         indicizzazione |-> comps[i].indicizzazione,
                         inizio_indicizzazione_prefisso |->
                            componente.inizio_indicizzazione_prefisso])
                ELSE comps
         IN  sincronizza(dopo, st, Tail(richiesti))

\* ------------------------------------------------------------------ state
VARIABLES
    stato,                    \* GestoreSerialNumber.stato
    file_stato,               \* contents of DB/serial_numbers_state.json
    componenti,               \* GestioneComponenti.componenti
    file_componenti,          \* contents of DB/componenti_database.json
    oggi,                     \* datetime.now(): year and month
    pc,                       \* "idle", or the position inside a batch run
    numero_bus,               \* arguments of the run in progress
    bus_iniziale,
    richiesti,                \* the run's argument componenti
    componenti_sn_calcolati,  \* locals of the run in progress
    primo_utilizzo,
    bus_idx,
    comp_idx,
    elemento_idx,
    righe,                    \* rows written to the sheet by the run
    chiamate,                 \* genera_serial_number calls made by the run
    stato_pre,                \* gestore_sn.stato as it was when the run began
    componenti_pre,           \* the registry as it was when the run began
    ultima_op,                \* the last call made and what it returned
    traccia,                  \* which of the records of past runs are being kept
    emessi,                   \* <<descrizione, sn>> written to some row so far
    riemesso,                 \* some <<descrizione, sn>> was written to a second row
    override_basso,           \* some run gave an sn_iniziale not above ultimo_sn
    code_fornito,             \* per name, the last code_12nc a completed run was given
    elenco,                   \* the list a caller got from ottieni_tutti_componenti
    stato_due                 \* stato of a second GestoreSerialNumber on the same file

vars_sn == <<stato, file_stato>>
vars_componenti == <<componenti, file_componenti>>
vars_run == <<numero_bus, bus_iniziale, richiesti, componenti_sn_calcolati,
              primo_utilizzo, bus_idx, comp_idx, elemento_idx, righe, chiamate,
              stato_pre, componenti_pre>>
vars_storia == <<traccia, emessi, riemesso, override_basso, code_fornito>>
vars_altri == <<elenco, stato_due>>
vars == <<stato, file_stato, componenti, file_componenti, oggi, pc, numero_bus,
          bus_iniziale, richiesti, componenti_sn_calcolati, primo_utilizzo,
          bus_idx, comp_idx, elemento_idx, righe, chiamate, stato_pre,
          componenti_pre, ultima_op, traccia, emessi, riemesso, override_basso,
          code_fornito, elenco, stato_due>>

vuoto == [d \in {} |-> None]

\* record of a call other than genera_serial_number
Op(op, nome, valore, esito) ==
    [op |-> op, nome |-> nome, sn_iniziale |-> Nessuno, code_12nc |-> None,
     esisteva |-> FALSE, precedente |-> -1, valore |-> valore, sn |-> <<>>,
     esito |-> esito]

\* everything but the two stores, the position of the process and the date
InitSenzaPc ==
    /\ stato = vuoto
    /\ numero_bus = 0
    /\ bus_iniziale = 0
    /\ richiesti = <<>>
    /\ componenti_sn_calcolati = <<>>
    /\ primo_utilizzo = vuoto
    /\ bus_idx = 0
    /\ comp_idx = 0
    /\ elemento_idx = 0
    /\ righe = <<>>
    /\ chiamate = <<>>
    /\ stato_pre = vuoto
    /\ componenti_pre = <<>>
    /\ ultima_op = Op("init", None, 0, "ok")
    /\ emessi = {}
    /\ riemesso = FALSE
    /\ override_basso = FALSE
    /\ code_fornito = [n \in Nomi |-> None]
    /\ elenco = <<>>
    /\ stato_due = vuoto

InitSenzaData ==
    /\ InitSenzaPc
    /\ file_stato = vuoto
    /\ pc = "idle"

InitComune ==
    /\ InitSenzaData
    /\ oggi \in Date

Init ==
    /\ InitComune
    /\ componenti = <<>>
    /\ file_componenti = <<>>
    /\ traccia = {}

\* ---------------------------------------------- serial allocator: actions
\* the effect of one call genera_serial_number(descrizione, sn_iniziale, code_12nc)
genera_serial_number_effetto(descrizione, sn_iniziale, code_12nc, ok) ==
    LET n == numero_incrementale(stato, descrizione, sn_iniziale)
    IN  /\ stato' = stato_aggiornato(stato, oggi, descrizione, n, code_12nc)
        /\ file_stato' = salva(ok, stato', file_stato)
        /\ ultima_op' =
              [op |-> "genera_serial_number", nome |-> descrizione,
               sn_iniziale |-> sn_iniziale, code_12nc |-> code_12nc,
               esisteva |-> descrizione \in DOMAIN stato,
               precedente |-> get_ultimo_sn(stato, descrizione),
               valore |-> n, sn |-> formato_sn(oggi, n), esito |-> "ok"]

\* the call, taken only while the counter it issues is not above MaxSn
genera_serial_number(descrizione, sn_iniziale, code_12nc, ok) ==
    /\ numero_incrementale(stato, descrizione, sn_iniziale) <= MaxSn
    /\ genera_serial_number_effetto(descrizione, sn_iniziale, code_12nc, ok)

\* a call of the allocator outside a batch run
GeneraSerialNumber(descrizione, sn_iniziale, code_12nc, ok) ==
    /\ pc = "idle"
    /\ genera_serial_number(descrizione, sn_iniziale, code_12nc, ok)
    /\ UNCHANGED <<vars_altri, vars_componenti, oggi, pc, vars_run, vars_storia>>

GetUltimoSn(descrizione) ==
    /\ pc = "idle"
    /\ ultima_op' = Op("get_ultimo_sn", descrizione,
                       get_ultimo_sn(stato, descrizione), "ok")
    /\ UNCHANGED <<vars_altri, vars_sn, vars_componenti, oggi, pc, vars_run, vars_storia>>

\* --------------------------------------------------- registry: actions
AggiungiComponente(componente, ok) ==
    /\ pc = "idle"
    /\ Len(aggiungi_componente(componenti, componente)) <= MaxRegistro
    /\ componenti' = aggiungi_componente(componenti, componente)
    /\ IF cerca_componente_per_nome(componenti, componente.nome) # 0
       THEN /\ UNCHANGED file_componenti
            /\ ultima_op' = Op("aggiungi_componente", componente.nome, 0, "False")
       ELSE /\ file_componenti' = salva(ok, componenti', file_componenti)
            /\ ultima_op' = Op("aggiungi_componente", componente.nome, 0, "True")
    /\ UNCHANGED <<vars_altri, vars_sn, oggi, pc, vars_run, vars_storia>>

ModificaComponente(nome_originale, componente, ok) ==
    /\ pc = "idle"
    /\ componenti' = modifica_componente(componenti, nome_originale, componente)
    /\ IF cerca_componente_per_nome(componenti, nome_originale) = 0
       THEN /\ UNCHANGED file_componenti
            /\ ultima_op' = Op("modifica_componente", nome_originale, 0, "False")
       ELSE /\ file_componenti' = salva(ok, componenti', file_componenti)
            /\ ultima_op' = Op("modifica_componente", nome_originale, 0, "True")
    /\ UNCHANGED <<vars_altri, vars_sn, oggi, pc, vars_run, vars_storia>>

EliminaComponente(nome, ok) ==
    /\ pc = "idle"
    /\ componenti' = elimina_componente(componenti, nome)
    /\ IF Len(componenti') < Len(componenti)
       THEN /\ file_componenti' = salva(ok, componenti', file_componenti)
            /\ ultima_op' = Op("elimina_componente", nome, 0, "True")
       ELSE /\ UNCHANGED file_componenti
            /\ ultima_op' = Op("elimina_componente", nome, 0, "False")
    /\ UNCHANGED <<vars_altri, vars_sn, oggi, pc, vars_run, vars_storia>>

AggiornaSnIniziale(nome, nuovo_sn, ok) ==
    /\ pc = "idle"
    /\ componenti' = aggiorna_sn_iniziale(componenti, nome, nuovo_sn)
    /\ IF cerca_componente_per_nome(componenti, nome) = 0
       THEN /\ UNCHANGED file_componenti
            /\ ultima_op' = Op("aggiorna_sn_iniziale", nome, 0, "False")
       ELSE /\ file_componenti' = salva(ok, componenti', file_componenti)
            /\ ultima_op' = Op("aggiorna_sn_iniziale", nome, 0, "True")
    /\ UNCHANGED <<vars_altri, vars_sn, oggi, pc, vars_run, vars_storia>>

\* ---------------------------------------------------- batch run: actions
RECURSIVE somma_quantita(_, _)
somma_quantita(comps, nome) ==
    IF comps = <<>> THEN 0
    ELSE (IF Head(comps).nome = nome THEN Head(comps).quantita ELSE 0)
            + somma_quantita(Tail(comps), nome)

\* the run issues no counter above MaxSn: the counters of a name start at the
\* prossimo_sn of its first entry and there is one per unit of that name
entro_limite(st, nb, comps) ==
    \A i \in 1..Len(comps) :
        LET nome == comps[i].nome
            primo == comps[cerca_componente_per_nome(comps, nome)]
        IN  prossimo_sn(st, primo) + nb * somma_quantita(comps, nome) - 1 <= MaxSn

\* the request gives the component an sn_iniziale that is not above the
\* ultimo_sn stored for it
sn_non_sopra(st, componente) ==
    /\ componente.sn_iniziale # Nessuno
    /\ componente.nome \in DOMAIN st
    /\ componente.sn_iniziale[1] <= st[componente.nome].ultimo_sn

\* the last truthy code_12nc the request gives for each name, else the old one
RECURSIVE code_forniti(_, _)
code_forniti(vecchi, comps) ==
    IF comps = <<>> THEN vecchi
    ELSE code_forniti(
            IF Truthy(Head(comps).code_12nc)
            THEN [vecchi EXCEPT ![Head(comps).nome] = Head(comps).code_12nc]
            ELSE vecchi,
            Tail(comps))

\* the run raises ValueError in its first loop: a component that has no
\* stored state comes without code_12nc
CreaDocumentoErrore(nb, bi, comps) ==
    /\ pc = "idle"
    /\ \E i \in 1..Len(comps) :
          /\ manca_code_12nc(stato, comps[i])
          /\ \A j \in 1..(i - 1) : ~manca_code_12nc(stato, comps[j])
          /\ ultima_op' = Op("crea_documento_con_componenti", comps[i].nome, i,
                             "ValueError")
    /\ UNCHANGED <<vars_altri, vars_sn, vars_componenti, oggi, pc, vars_run, vars_storia>>

\* the first loop completes: componenti_sn_calcolati and the flags are set
CreaDocumentoInizio(nb, bi, comps) ==
    /\ pc = "idle"
    /\ \A i \in 1..Len(comps) : ~manca_code_12nc(stato, comps[i])
    /\ entro_limite(stato, nb, comps)
    /\ numero_bus' = nb
    /\ bus_iniziale' = bi
    /\ richiesti' = comps
    /\ componenti_sn_calcolati' = calcola_componenti(stato, comps)
    /\ primo_utilizzo' = [n \in {comps[i].nome : i \in 1..Len(comps)} |-> TRUE]
    /\ bus_idx' = 0
    /\ comp_idx' = 1
    /\ elemento_idx' = 0
    /\ righe' = <<>>
    /\ chiamate' = <<>>
    /\ stato_pre' = stato
    /\ componenti_pre' = componenti
    /\ pc' = "loop"
    /\ ultima_op' = Op("crea_documento_con_componenti", None, 0, "inizio")
    /\ override_basso' =
          IF "emessi" \in traccia
          THEN override_basso \/ \E i \in 1..Len(comps) : sn_non_sopra(stato, comps[i])
          ELSE override_basso
    /\ UNCHANGED <<vars_altri, vars_sn, vars_componenti, oggi, traccia, emessi, riemesso,
                   code_fornito>>

\* ------------------------------------------------- registry: snapshot
\* ottieni_tutti_componenti returns self.componenti.copy(): a new list whose
\* elements are the dicts of the registry themselves. An element of elenco has
\* rif = k when it is the dict that is entry k of the registry (proprio then
\* shows its contents), and rif = 0 when it is a dict the caller made.
ottieni_tutti_componenti(comps) ==
    [i \in 1..Len(comps) |-> [rif |-> i, proprio |-> comps[i]]]

OttieniTuttiComponenti ==
    /\ pc = "idle"
    /\ elenco' = ottieni_tutti_componenti(componenti)
    /\ ultima_op' = Op("ottieni_tutti_componenti", None, Len(componenti), "ok")
    /\ UNCHANGED <<stato_due, vars_sn, vars_componenti, oggi, pc, vars_run, vars_storia>>

\* the caller appends a dict of its own to the list it was given
ElencoAppend(componente) ==
    /\ pc = "idle"
    /\ Len(elenco) <= MaxRegistro
    /\ elenco' = Append(elenco, [rif |-> 0, proprio |-> componente])
    /\ ultima_op' = Op("elenco.append", componente.nome, Len(elenco'), "ok")
    /\ UNCHANGED <<stato_due, vars_sn, vars_componenti, oggi, pc, vars_run, vars_storia>>

\* the caller removes element i of the list it was given
ElencoPop(i) ==
    /\ pc = "idle"
    /\ i \in 1..Len(elenco)
    /\ elenco' = SubSeq(elenco, 1, i - 1) \o SubSeq(elenco, i + 1, Len(elenco))
    /\ ultima_op' = Op("elenco.pop", None, i, "ok")
    /\ UNCHANGED <<stato_due, vars_sn, vars_componenti, oggi, pc, vars_run, vars_storia>>

\* the caller assigns elenco[i]['code_12nc'] = code_12nc: the dict assigned to
\* is the registry's own when the element came from the registry
ElencoAssegnaCode(i, code_12nc) ==
    /\ pc = "idle"
    /\ i \in 1..Len(elenco)
    /\ IF elenco[i].rif # 0
       THEN /\ componenti' = [componenti EXCEPT ![elenco[i].rif].code_12nc = code_12nc]
            /\ elenco' = [elenco EXCEPT ![i].proprio = componenti'[elenco[i].rif]]
       ELSE /\ elenco' = [elenco EXCEPT ![i].proprio.code_12nc = code_12nc]
            /\ UNCHANGED componenti
    /\ ultima_op' = Op("elenco[i]['code_12nc'] =", None, i, "ok")
    /\ UNCHANGED <<stato_due, vars_sn, file_componenti, oggi, pc, vars_run, vars_storia>>

\* one iteration of the innermost loop: one unit of one component of one bus
GeneraElemento(ok) ==
    /\ pc = "loop"
    /\ LET comp_info == componenti_sn_calcolati[comp_idx]
           nome == comp_info.nome
           primo == primo_utilizzo[nome]
       IN  /\ genera_serial_number(nome, sn_passato(primo, comp_info),
                                   code_passato(primo, comp_info), ok)
           /\ chiamate' = Append(chiamate,
                  [descrizione |-> nome,
                   sn_iniziale |-> sn_passato(primo, comp_info),
                   code_12nc |-> code_passato(primo, comp_info)])
           /\ primo_utilizzo' = [primo_utilizzo EXCEPT ![nome] = FALSE]
           /\ righe' = Append(righe,
                  [bus |-> bus_iniziale + bus_idx,
                   nome |-> nome,
                   code_12nc |-> comp_info.code_12nc,
                   sn |-> ultima_op'.sn,
                   elemento_idx |-> elemento_idx,
                   numero_indic |-> numero_indic_di(comp_info, elemento_idx),
                   tipo_scheda |-> tipo_scheda_di(comp_info, elemento_idx)])
           /\ IF "emessi" \in traccia
              THEN /\ emessi' = emessi \cup {<<nome, ultima_op'.sn>>}
                   /\ riemesso' = (riemesso \/ <<nome, ultima_op'.sn>> \in emessi)
              ELSE UNCHANGED <<emessi, riemesso>>
           /\ IF elemento_idx + 1 < comp_info.quantita
              THEN /\ elemento_idx' = elemento_idx + 1
                   /\ UNCHANGED <<comp_idx, bus_idx, pc>>
              ELSE IF comp_idx < Len(componenti_sn_calcolati)
              THEN /\ elemento_idx' = 0
                   /\ comp_idx' = comp_idx + 1
                   /\ UNCHANGED <<bus_idx, pc>>
              ELSE IF bus_idx + 1 < numero_bus
              THEN /\ elemento_idx' = 0
                   /\ comp_idx' = 1
                   /\ bus_idx' = bus_idx + 1
                   /\ UNCHANGED pc
              ELSE /\ elemento_idx' = 0
                   /\ comp_idx' = 0
                   /\ bus_idx' = 0
                   /\ pc' = "sync"
    /\ UNCHANGED <<vars_altri, vars_componenti, oggi, numero_bus, bus_iniziale, richiesti,
                   componenti_sn_calcolati, stato_pre, componenti_pre, traccia,
                   override_basso,
                   code_fornito>>

\* the final loop writes the registry back, the workbook is saved and the run
\* returns
Sincronizza(ok) ==
    /\ pc = "sync"
    /\ componenti' = sincronizza(componenti, stato, richiesti)
    /\ file_componenti' =
          IF \E i \in 1..Len(richiesti) :
                /\ richiesti[i].nome \in DOMAIN stato
                /\ cerca_componente_per_nome(componenti, richiesti[i].nome) # 0
          THEN salva(ok, componenti', file_componenti)
          ELSE file_componenti
    /\ pc' = "idle"
    /\ numero_bus' = 0
    /\ bus_iniziale' = 0
    /\ richiesti' = <<>>
    /\ stato_pre' = vuoto
    /\ componenti_pre' = IF "componenti_pre" \in traccia THEN componenti_pre ELSE <<>>
    /\ componenti_sn_calcolati' = <<>>
    /\ primo_utilizzo' = vuoto
    /\ righe' = <<>>
    /\ chiamate' = <<>>
    /\ ultima_op' = Op("crea_documento_con_componenti", None, 0, "ok")
    /\ code_fornito' =
          IF "code_fornito" \in traccia THEN code_forniti(code_fornito, richiesti)
          ELSE code_fornito
    /\ UNCHANGED <<vars_altri, vars_sn, oggi, bus_idx, comp_idx, elemento_idx, traccia, emessi,
                   riemesso, override_basso>>

\* ------------------------------------------------------ process restart
\* the process ends, wherever it is, and a new one constructs
\* GestioneComponenti and GestoreSerialNumber from the two files; ultima_op
\* tells where the old process was and whether the registry file was rewritten
Riavvia(ok) ==
    /\ stato' = carica_stato(file_stato)
    /\ componenti' = carica_componenti(file_componenti)
    /\ file_componenti' =
          IF migrazione_necessaria(file_componenti)
          THEN salva(ok, componenti', file_componenti)
          ELSE file_componenti
    /\ pc' = "idle"
    /\ numero_bus' = 0
    /\ bus_iniziale' = 0
    /\ richiesti' = <<>>
    /\ componenti_sn_calcolati' = <<>>
    /\ primo_utilizzo' = vuoto
    /\ bus_idx' = 0
    /\ comp_idx' = 0
    /\ elemento_idx' = 0
    /\ righe' = <<>>
    /\ chiamate' = <<>>
    /\ stato_pre' = vuoto
    /\ componenti_pre' = <<>>
    /\ elenco' = <<>>
    /\ stato_due' = vuoto
    /\ ultima_op' = Op("riavvio", pc,
                       IF migrazione_necessaria(file_componenti) THEN 1 ELSE 0, "ok")
    /\ UNCHANGED <<file_stato, oggi, vars_storia>>

\* ------------------------------------------- two allocators on one file
\* a call genera_serial_number(descrizione, None, code_12nc) on the first
\* GestoreSerialNumber, the counter it issues being recorded in emessi
GeneraPrima(descrizione, code_12nc, ok) ==
    /\ pc = "idle"
    /\ genera_serial_number(descrizione, Nessuno, code_12nc, ok)
    /\ emessi' = emessi \cup {<<descrizione, ultima_op'.sn>>}
    /\ riemesso' = (riemesso \/ <<descrizione, ultima_op'.sn>> \in emessi)
    /\ UNCHANGED <<vars_altri, vars_componenti, oggi, pc, vars_run, traccia,
                   override_basso, code_fornito>>

\* the same call on the second GestoreSerialNumber, which computes from its
\* own stato and rewrites the whole file from it
GeneraSeconda(descrizione, code_12nc, ok) ==
    /\ pc = "idle"
    /\ LET n == numero_incrementale(stato_due, descrizione, Nessuno)
       IN  /\ n <= MaxSn
           /\ stato_due' = stato_aggiornato(stato_due, oggi, descrizione, n, code_12nc)
           /\ file_stato' = salva(ok, stato_due', file_stato)
           /\ ultima_op' =
                 [op |-> "genera_serial_number (2)", nome |-> descrizione,
                  sn_iniziale |-> Nessuno, code_12nc |-> code_12nc,
                  esisteva |-> descrizione \in DOMAIN stato_due,
                  precedente |-> get_ultimo_sn(stato_due, descrizione),
                  valore |-> n, sn |-> formato_sn(oggi, n), esito |-> "ok"]
    /\ emessi' = emessi \cup {<<descrizione, ultima_op'.sn>>}
    /\ riemesso' = (riemesso \/ <<descrizione, ultima_op'.sn>> \in emessi)
    /\ UNCHANGED <<stato, elenco, vars_componenti, oggi, pc, vars_run, traccia,
                   override_basso, code_fornito>>

\* ------------------------------------------------------------ inputs
SnIniziali == {Nessuno, <<0>>, <<2>>}
CodiciOpz == {None} \cup Codici
BusIniziali == {5}

Richiesto(nome, quantita, sn_iniziale, code_12nc) ==
    [nome |-> nome, quantita |-> quantita, sn_iniziale |-> sn_iniziale,
     prefisso_tipo_scheda |-> "SU", code_12nc |-> code_12nc,
     indicizzazione |-> TRUE, inizio_indicizzazione_prefisso |-> PolicyNone]

Definizione(nome, code_12nc) ==
    [nome |-> nome, code_12nc |-> code_12nc, sn_iniziale |-> Nessuno,
     prefisso_tipo_scheda |-> "SU", indicizzazione |-> TRUE,
     inizio_indicizzazione_prefisso |-> PolicyNone]

Definizioni == {Definizione("SENSOR", "ABC123"), Definizione("RELAY", "XYZ789")}

\* requests of the runs of Spec: one component
RichiesteSpec ==
    {<<Richiesto("SENSOR", q, s, c)>> :
        q \in 1..MaxQuantita, s \in {Nessuno, <<0>>}, c \in {None, "ABC123"}}

\* ------------------------------------------------------- specification
\* Spec: the allocator called directly with every argument, the registry
\* operations on one component, and batch runs of one component
Next ==
    \/ \E d \in Nomi, s \in SnIniziali \cup {<<-1>>}, c \in CodiciOpz :
          GeneraSerialNumber(d, s, c, TRUE)
    \/ \E d \in Nomi : GetUltimoSn(d)
    \/ AggiungiComponente(Definizione("SENSOR", "ABC123"), TRUE)
    \/ ModificaComponente("SENSOR", Definizione("SENSOR", "XYZ789"), TRUE)
    \/ EliminaComponente("SENSOR", TRUE)
    \/ AggiornaSnIniziale("SENSOR", 1, TRUE)
    \/ \E nb \in 1..MaxBus, bi \in BusIniziali, comps \in RichiesteSpec :
          CreaDocumentoErrore(nb, bi, comps)
    \/ \E nb \in 1..MaxBus, bi \in BusIniziali, comps \in RichiesteSpec :
          CreaDocumentoInizio(nb, bi, comps)
    \/ GeneraElemento(TRUE)
    \/ Sincronizza(TRUE)

Spec == Init /\ [][Next]_vars

\* SpecLotto: batch runs only, of one or two components picked from a
\* registry that holds both; code_fornito is recorded
ComponentiSingoli ==
    {Richiesto("SENSOR", q, s, c) :
        q \in 1..MaxQuantita, s \in SnIniziali, c \in CodiciOpz}

ComponentiCoppia ==
    {Richiesto(n, q, s, c) :
        n \in Nomi, q \in {1, MaxQuantita}, s \in {Nessuno, <<1>>},
        c \in {None, "ABC123"}}

RichiesteLotto ==
    {<<c>> : c \in ComponentiSingoli}
        \cup {<<c1, c2>> : c1 \in ComponentiCoppia, c2 \in ComponentiCoppia}

RegistroIniziale ==
    <<Definizione("SENSOR", "ABC123"), Definizione("RELAY", "XYZ789")>>

InitLotto ==
    /\ InitComune
    /\ componenti = RegistroIniziale
    /\ file_componenti = RegistroIniziale
    /\ traccia = {"code_fornito"}

NextLotto ==
    \/ \E nb \in {1, MaxBus}, bi \in BusIniziali, comps \in RichiesteLotto :
          CreaDocumentoErrore(nb, bi, comps)
    \/ \E nb \in {1, MaxBus}, bi \in BusIniziali, comps \in RichiesteLotto :
          CreaDocumentoInizio(nb, bi, comps)
    \/ GeneraElemento(TRUE)
    \/ Sincronizza(TRUE)

SpecLotto == InitLotto /\ [][NextLotto]_vars

\* SpecStorico: batch runs of the component SENSOR; the serials written to
\* rows are recorded
ComponentiStorico ==
    {Richiesto("SENSOR", q, s, "ABC123") : q \in 1..MaxQuantita, s \in SnIniziali}

RichiesteStorico ==
    {<<c>> : c \in ComponentiStorico}
        \cup {<<c1, c2>> : c1 \in ComponentiStorico, c2 \in ComponentiStorico}

InitStorico ==
    /\ InitComune
    /\ componenti = RegistroIniziale
    /\ file_componenti = RegistroIniziale
    /\ traccia = {"emessi"}

NextStorico ==
    \/ \E nb \in 1..MaxBus, bi \in BusIniziali, comps \in RichiesteStorico :
          CreaDocumentoInizio(nb, bi, comps)
    \/ GeneraElemento(TRUE)
    \/ Sincronizza(TRUE)

SpecStorico == InitStorico /\ [][NextStorico]_vars

\* SpecIndice: batch runs whose components differ in prefisso_tipo_scheda,
\* indicizzazione and inizio_indicizzazione_prefisso; the registry a run found
\* is kept after the run returns
Inizi == {PolicyNone, PolicyInt(7), PolicyList(<<1, 3, 5>>), PolicyList(<<>>)}

RichiestoIndice(nome, quantita, sn_iniziale, prefisso, indicizzazione, inizio) ==
    [nome |-> nome, quantita |-> quantita, sn_iniziale |-> sn_iniziale,
     prefisso_tipo_scheda |-> prefisso, code_12nc |-> "ABC123",
     indicizzazione |-> indicizzazione, inizio_indicizzazione_prefisso |-> inizio]

ComponentiIndice ==
    {RichiestoIndice("SENSOR", q, <<0>>, "SU", TRUE, z) :
        q \in 1..MaxUnita, z \in Inizi}
        \cup {RichiestoIndice("SENSOR", 1, Nessuno, "SU", TRUE, PolicyNone)}

ComponentiSenzaIndice ==
    {RichiestoIndice("SENSOR", 2, <<0>>, pi[1], pi[2], z) :
        pi \in {<<"SU", FALSE>>, <<"", TRUE>>, <<"", FALSE>>, <<None, TRUE>>},
        z \in {PolicyNone, PolicyInt(7)}}

ComponentiSecondi ==
    {RichiestoIndice("RELAY", q, <<0>>, "RL", TRUE, z) :
        q \in {1, 2}, z \in {PolicyNone, PolicyInt(7)}}

RichiesteIndice ==
    {<<c>> : c \in ComponentiIndice \cup ComponentiSenzaIndice}
        \cup {<<c1, c2>> : c1 \in {c \in ComponentiIndice :
                                     /\ c.quantita = 2
                                     /\ c.inizio_indicizzazione_prefisso
                                           \in {PolicyNone, PolicyList(<<1, 3, 5>>)}},
                           c2 \in ComponentiSecondi}

InitIndice ==
    /\ InitComune
    /\ componenti = RegistroIniziale
    /\ file_componenti = RegistroIniziale
    /\ traccia = {"componenti_pre"}

NextIndice ==
    \/ \E nb \in 1..MaxBus, bi \in BusIniziali, comps \in RichiesteIndice :
          CreaDocumentoInizio(nb, bi, comps)
    \/ GeneraElemento(TRUE)
    \/ Sincronizza(TRUE)

SpecIndice == InitIndice /\ [][NextIndice]_vars

\* SpecFormato: the allocator called directly for SENSOR on any month of three
\* years, with counters from below 0 to above 99999
DateFormato == {[anno |-> a, mese |-> m] : a \in {2009, 2025, 2100}, m \in 1..12}
ContatoriFormato == {-1, 0, 1, 9, 10, 138, 99999, 100000}
SnInizialiFormato == {Nessuno, <<-1>>, <<0>>, <<9>>, <<138>>, <<99999>>}

\* a call of the allocator that issues one of the counters of ContatoriFormato
GeneraSerialNumberFormato(descrizione, sn_iniziale, code_12nc, ok) ==
    /\ pc = "idle"
    /\ numero_incrementale(stato, descrizione, sn_iniziale) \in ContatoriFormato
    /\ genera_serial_number_effetto(descrizione, sn_iniziale, code_12nc, ok)
    /\ UNCHANGED <<vars_altri, vars_componenti, oggi, pc, vars_run, vars_storia>>

InitFormato ==
    /\ InitSenzaData
    /\ oggi \in DateFormato
    /\ componenti = <<>>
    /\ file_componenti = <<>>
    /\ traccia = {}

NextFormato ==
    \E s \in SnInizialiFormato : GeneraSerialNumberFormato("SENSOR", s, "ABC123", TRUE)

SpecFormato == InitFormato /\ [][NextFormato]_vars

\* SpecRegistro: the registry operations alone, on entries of either name and
\* either code, renames included
DefinizioniRegistro == {Definizione(n, c) : n \in Nomi, c \in Codici}
SnRegistro == {1, 2}

InitRegistro ==
    /\ InitComune
    /\ componenti = <<>>
    /\ file_componenti = <<>>
    /\ traccia = {}

NextRegistro ==
    \/ \E componente \in DefinizioniRegistro : AggiungiComponente(componente, TRUE)
    \/ \E nome \in Nomi, componente \in DefinizioniRegistro :
          ModificaComponente(nome, componente, TRUE)
    \/ \E nome \in Nomi : EliminaComponente(nome, TRUE)
    \/ \E nome \in Nomi, nuovo_sn \in SnRegistro :
          AggiornaSnIniziale(nome, nuovo_sn, TRUE)

SpecRegistro == InitRegistro /\ [][NextRegistro]_vars

\* SpecElenco: a caller takes the list of a registry of two entries and
\* changes what it was given
InitElenco ==
    /\ InitComune
    /\ componenti = RegistroIniziale
    /\ file_componenti = RegistroIniziale
    /\ traccia = {}

NextElenco ==
    \/ OttieniTuttiComponenti
    \/ \E componente \in DefinizioniRegistro : ElencoAppend(componente)
    \/ \E i \in 1..(MaxRegistro + 1) : ElencoPop(i)
    \/ \E i \in 1..(MaxRegistro + 1), c \in Codici : ElencoAssegnaCode(i, c)

SpecElenco == InitElenco /\ [][NextElenco]_vars

\* SpecVita: the life of an installation. The process starts on a registry
\* file some of whose entries were written before the key
\* 'inizio_indicizzazione_prefisso' existed; then direct allocator calls for
\* both names, registry operations (renames included), a run of two units of
\* SENSOR whose request differs from the registry entry in prefix,
\* indicizzazione and index start, and restarts at any point. Every write
\* succeeds.
VoceVecchia(nome) ==
    [nome |-> nome, code_12nc |-> "ABC123", sn_iniziale |-> <<1>>,
     prefisso_tipo_scheda |-> "SU", indicizzazione |-> TRUE]

VociStore ==
    {VoceVecchia(n) : n \in Nomi} \cup {Definizione(n, "ABC123") : n \in Nomi}

StoreVita ==
    {<<>>} \cup {<<a>> : a \in VociStore}
           \cup {<<a, b>> : a \in {v \in VociStore : v.nome = "SENSOR"},
                            b \in {v \in VociStore : v.nome = "RELAY"}}

RichiesteVita == {<<RichiestoIndice("SENSOR", 2, Nessuno, "RL", FALSE, PolicyInt(7))>>}

InitVita ==
    /\ InitSenzaPc
    /\ pc = "spento"
    /\ oggi \in Date
    /\ file_stato = vuoto
    /\ file_componenti \in StoreVita
    /\ componenti = <<>>
    /\ traccia = {}

NextVita ==
    \/ Riavvia(TRUE)
    \/ \E d \in Nomi : GeneraSerialNumber(d, Nessuno, "ABC123", TRUE)
    \/ \E n \in Nomi : AggiungiComponente(Definizione(n, "ABC123"), TRUE)
    \/ \E n, m \in Nomi : ModificaComponente(n, Definizione(m, "XYZ789"), TRUE)
    \/ \E n \in Nomi : EliminaComponente(n, TRUE)
    \/ \E n \in Nomi : AggiornaSnIniziale(n, 2, TRUE)
    \/ \E comps \in RichiesteVita : CreaDocumentoInizio(1, 5, comps)
    \/ GeneraElemento(TRUE)
    \/ Sincronizza(TRUE)

SpecVita == InitVita /\ [][NextVita]_vars

\* SpecGuasto: direct allocator calls and registry operations for SENSOR,
\* each with the write of its file succeeding or failing
InitGuasto ==
    /\ InitComune
    /\ componenti = <<>>
    /\ file_componenti = <<>>
    /\ traccia = {}

NextGuasto ==
    \/ \E ok \in BOOLEAN : GeneraSerialNumber("SENSOR", Nessuno, "ABC123", ok)
    \/ \E ok \in BOOLEAN : AggiungiComponente(Definizione("SENSOR", "ABC123"), ok)
    \/ \E ok \in BOOLEAN :
          ModificaComponente("SENSOR", Definizione("SENSOR", "XYZ789"), ok)
    \/ \E ok \in BOOLEAN : EliminaComponente("SENSOR", ok)
    \/ \E ok \in BOOLEAN : AggiornaSnIniziale("SENSOR", 2, ok)

SpecGuasto == InitGuasto /\ [][NextGuasto]_vars

\* SpecMalformato: runs whose list gives a component an
\* inizio_indicizzazione_prefisso that is neither None, an int nor a list:
\* the string 'abc'
PolicyTesto == [tipo |-> "str", num |-> 0, lista |-> <<>>]

ComponentiMalformato ==
    {RichiestoIndice(n, q, Nessuno, "SU", TRUE, z) :
        n \in Nomi, q \in 1..MaxQuantita, z \in {PolicyNone, PolicyInt(7), PolicyTesto}}

RichiesteMalformato ==
    {<<a>> : a \in {c \in ComponentiMalformato : c.nome = "SENSOR"}}
        \cup {<<a, b>> : a \in {c \in ComponentiMalformato :
                                   c.nome = "SENSOR" /\ c.quantita = 1},
                         b \in {c \in ComponentiMalformato :
                                   c.nome = "RELAY" /\ c.quantita = 1}}

InitMalformato ==
    /\ InitComune
    /\ componenti = RegistroIniziale
    /\ file_componenti = RegistroIniziale
    /\ traccia = {}

NextMalformato ==
    \/ \E nb \in 1..MaxBus, bi \in BusIniziali, comps \in RichiesteMalformato :
          CreaDocumentoInizio(nb, bi, comps)
    \/ GeneraElemento(TRUE)
    \/ Sincronizza(TRUE)

SpecMalformato == InitMalformato /\ [][NextMalformato]_vars

\* SpecDue: two GestoreSerialNumber constructed on the same state file, which
\* holds nothing yet; calls without sn_iniziale on either, in any order
InitDue ==
    /\ InitComune
    /\ stato_due = carica_stato(file_stato)
    /\ componenti = <<>>
    /\ file_componenti = <<>>
    /\ traccia = {"emessi"}

NextDue ==
    \/ \E d \in Nomi : GeneraPrima(d, "ABC123", TRUE)
    \/ \E d \in Nomi : GeneraSeconda(d, "ABC123", TRUE)

SpecDue == InitDue /\ [][NextDue]_vars

\* ------------------------------------------------------------------ claims
\* the step taken is a call genera_serial_number(d, ...)
E_genera(op, d) == op.op = "genera_serial_number" /\ op.nome = d

\* C1: when a description d has a stored state with ultimo_sn = k, a call
\* genera_serial_number(d) without sn_iniziale returns the serial of counter
\* k + 1 and leaves ultimo_sn(d) = k + 1, whatever calls produced k.
C1_IncrementaDaUltimo ==
    [][\A d \in DOMAIN stato :
          (E_genera(ultima_op', d) /\ ultima_op'.sn_iniziale = Nessuno)
          => /\ stato'[d].ultimo_sn = stato[d].ultimo_sn + 1
             /\ ultima_op'.valore = stato[d].ultimo_sn + 1
             /\ ultima_op'.sn = formato_sn(oggi, stato[d].ultimo_sn + 1)]_vars

\* a call without sn_iniziale has just taken SENSOR from 2, set by an
\* sn_iniziale, to 3
C1_Testimone ==
    /\ E_genera(ultima_op, "SENSOR")
    /\ ultima_op.sn_iniziale = Nessuno
    /\ ultima_op.esisteva
    /\ ultima_op.precedente = 2
    /\ stato["SENSOR"].ultimo_sn = 3

\* C2: when a description d has no stored state, a call
\* genera_serial_number(d) without sn_iniziale returns the serial of counter 0
\* and creates the state of d with ultimo_sn = 0.
C2_NuovoParteDaZero ==
    [][\A d \in Nomi \ DOMAIN stato :
          (E_genera(ultima_op', d) /\ ultima_op'.sn_iniziale = Nessuno)
          => /\ d \in DOMAIN stato'
             /\ stato'[d].ultimo_sn = 0
             /\ ultima_op'.valore = 0
             /\ ultima_op'.sn = formato_sn(oggi, 0)]_vars

\* RELAY, which had no state, has just been given one by a call without
\* sn_iniziale
C2_Testimone ==
    /\ E_genera(ultima_op, "RELAY")
    /\ ultima_op.sn_iniziale = Nessuno
    /\ ~ultima_op.esisteva
    /\ stato["RELAY"].ultimo_sn = 0

\* C3: a call genera_serial_number(d, sn_iniziale = v) returns the serial of
\* counter v and sets ultimo_sn(d) = v, whether or not d had a state and
\* whatever its ultimo_sn was, also when v is below it.
C3_OverrideVince ==
    [][\A d \in Nomi :
          (E_genera(ultima_op', d) /\ ultima_op'.sn_iniziale # Nessuno)
          => /\ d \in DOMAIN stato'
             /\ stato'[d].ultimo_sn = ultima_op'.sn_iniziale[1]
             /\ ultima_op'.valore = ultima_op'.sn_iniziale[1]
             /\ ultima_op'.sn = formato_sn(oggi, ultima_op'.sn_iniziale[1])]_vars

\* SENSOR stood at 3 and a call with sn_iniziale = 0 has just put it at 0
C3_Testimone ==
    /\ E_genera(ultima_op, "SENSOR")
    /\ ultima_op.sn_iniziale = <<0>>
    /\ ultima_op.esisteva
    /\ ultima_op.precedente = 3
    /\ stato["SENSOR"].ultimo_sn = 0

\* the step taken is a call for d that carries a counter the caller chose: a
\* direct call with sn_iniziale, or the first call a run makes for d when the
\* request gave d an sn_iniziale
E_override_esplicito(d) ==
    /\ E_genera(ultima_op', d)
    /\ ultima_op'.sn_iniziale # Nessuno
    /\ \/ pc = "idle"
       \/ /\ pc = "loop"
          /\ richiesti[cerca_componente_per_nome(richiesti, d)].sn_iniziale # Nessuno

\* C4: no step other than an allocation of d with an explicit override lowers
\* ultimo_sn(d) or removes the state of d: not an allocation of d without
\* override, nor one of another description, nor get_ultimo_sn, nor a registry
\* operation, nor any step of a run that gave d no sn_iniziale, its
\* write-back included.
C4_NonDecresce ==
    [][\A d \in DOMAIN stato :
          ~E_override_esplicito(d)
          => /\ d \in DOMAIN stato'
             /\ stato'[d].ultimo_sn >= stato[d].ultimo_sn]_vars

\* a run that gave SENSOR no sn_iniziale has just written the registry back,
\* with SENSOR at 3 and above where the run found it
C4_Testimone ==
    /\ ultima_op.op = "crea_documento_con_componenti"
    /\ ultima_op.esito = "ok"
    /\ "SENSOR" \in DOMAIN stato
    /\ stato["SENSOR"].ultimo_sn = 3
    /\ cerca_componente_per_nome(componenti, "SENSOR") # 0
    /\ componenti[cerca_componente_per_nome(componenti, "SENSOR")].sn_iniziale = <<4>>

\* C10: a call genera_serial_number(d, code_12nc = c) with a code sets the
\* stored code_12nc of d to c, and a call without code leaves the stored
\* code_12nc of d as it was when d already has a state.
C10_CodeConservato ==
    [][\A d \in Nomi :
          E_genera(ultima_op', d)
          => /\ ultima_op'.code_12nc # None
                => stato'[d].code_12nc = ultima_op'.code_12nc
             /\ (ultima_op'.code_12nc = None /\ d \in DOMAIN stato)
                => stato'[d].code_12nc = stato[d].code_12nc]_vars

\* C5 as stated: over any sequence of batch runs in a fixed month and year
\* no <<description, serial>> is written to two rows, within a run or across
\* runs, runs that give an sn_iniziale included.
C5_MaiRiemesso == ~riemesso

\* C5 amended: over any sequence of batch runs in a fixed month and year in
\* which no run gives a component an sn_iniziale at or below the ultimo_sn
\* stored for it, no <<description, serial>> is written to two rows.
C5_UnicoSenzaOverrideBasso == ~override_basso => ~riemesso

\* a later run that gave SENSOR an sn_iniziale above its ultimo_sn has written
\* its rows, three serials or more are out, and no run gave a low sn_iniziale
C5_Testimone ==
    /\ pc = "sync"
    /\ ~override_basso
    /\ "SENSOR" \in DOMAIN stato_pre
    /\ richiesti[1].sn_iniziale # Nessuno
    /\ Cardinality(emessi) >= 3

\* positions in chiamate of the calls made for the name n
C6_chiamate_di(n) == {i \in 1..Len(chiamate) : chiamate[i].descrizione = n}

\* C6: in a batch run the first genera_serial_number call made for a name is
\* the only one for that name that is passed a counter; every later call for
\* that name is passed neither counter nor code; and when the loop is over
\* every requested name has had exactly one call with a counter.
C6_UnSoloPrimoUtilizzo ==
    pc \in {"loop", "sync"}
    => /\ \A n \in Nomi : \A i \in C6_chiamate_di(n) :
             IF \A j \in C6_chiamate_di(n) : i <= j
             THEN chiamate[i].sn_iniziale # Nessuno
             ELSE chiamate[i].sn_iniziale = Nessuno /\ chiamate[i].code_12nc = None
       /\ pc = "sync"
          => \A k \in 1..Len(richiesti) :
                Cardinality({i \in C6_chiamate_di(richiesti[k].nome) :
                                chiamate[i].sn_iniziale # Nessuno}) = 1

\* a run of two buses whose list names the same component twice has made its
\* four calls
C6_Testimone ==
    /\ pc = "sync"
    /\ numero_bus = 2
    /\ Len(richiesti) = 2
    /\ richiesti[1].nome = richiesti[2].nome
    /\ Len(chiamate) = 4

\* units per bus of the first j entries of the request
RECURSIVE C7_unita(_)
C7_unita(j) == IF j = 0 THEN 0 ELSE richiesti[j].quantita + C7_unita(j - 1)

\* the entry that row r belongs to, r counted from 0 within its bus
C7_voce(resto) ==
    CHOOSE j \in 1..Len(richiesti) : C7_unita(j - 1) <= resto /\ resto < C7_unita(j)

\* the starting counter of entry j as the request and the state found by the
\* run determine it
C7_inizio(j) ==
    IF richiesti[j].sn_iniziale # Nessuno THEN richiesti[j].sn_iniziale[1]
    ELSE IF richiesti[j].nome \in DOMAIN stato_pre
         THEN stato_pre[richiesti[j].nome].ultimo_sn + 1
         ELSE 0

C7_nomi_distinti ==
    \A i, j \in 1..Len(richiesti) : i # j => richiesti[i].nome # richiesti[j].nome

\* C7: a run over components of distinct names writes its rows bus by bus,
\* within a bus in list order, within a component by position; the row of bus
\* index i, entry j and position p carries bus bus_iniziale + i and the serial
\* of counter start_j + i * q_j + p, where start_j is the entry's sn_iniziale
\* when given, else ultimo_sn + 1 when the name had a state before the run,
\* else 0; the finished loop has written numero_bus * (q_1 + ... + q_m) rows.
C7_OrdineEContatori ==
    (pc \in {"loop", "sync"} /\ C7_nomi_distinti)
    => /\ \A r \in 1..Len(righe) :
             LET i == (r - 1) \div C7_unita(Len(richiesti))
                 resto == (r - 1) % C7_unita(Len(richiesti))
                 j == C7_voce(resto)
                 p == resto - C7_unita(j - 1)
             IN  /\ righe[r].bus = bus_iniziale + i
                 /\ righe[r].nome = richiesti[j].nome
                 /\ righe[r].sn =
                       formato_sn(oggi, C7_inizio(j) + i * richiesti[j].quantita + p)
       /\ pc = "sync" => Len(righe) = numero_bus * C7_unita(Len(richiesti))

\* a finished run of two buses over two components: two units per bus of one
\* that had no state, one unit per bus of one that resumes from its state
C7_Testimone ==
    /\ pc = "sync"
    /\ numero_bus = 2
    /\ Len(richiesti) = 2
    /\ C7_nomi_distinti
    /\ richiesti[1].quantita = 2
    /\ richiesti[1].nome \notin DOMAIN stato_pre
    /\ richiesti[2].nome \in DOMAIN stato_pre
    /\ richiesti[2].sn_iniziale = Nessuno
    /\ Len(righe) = 6

\* C8: a run whose list holds a component with neither a stored state nor a
\* code_12nc raises before any genera_serial_number call: the allocator state,
\* its file, the registry and its file are as before, also when the entries
\* listed before the failing one are valid; and no run with such a component
\* gets to its loop.
C8_ErroreSenzaEffetti ==
    [][/\ (ultima_op'.op = "crea_documento_con_componenti"
              /\ ultima_op'.esito = "ValueError")
          => /\ stato' = stato
             /\ file_stato' = file_stato
             /\ componenti' = componenti
             /\ file_componenti' = file_componenti
             /\ chiamate' = chiamate
             /\ righe' = righe
             /\ pc' = "idle"
       /\ (pc = "idle" /\ pc' = "loop")
          => \A i \in 1..Len(richiesti') :
                \/ richiesti'[i].nome \in DOMAIN stato
                \/ (richiesti'[i].code_12nc # None /\ richiesti'[i].code_12nc # "")]_vars

\* a run has just failed on its second entry, after runs that left a state
C8_Testimone ==
    /\ ultima_op.op = "crea_documento_con_componenti"
    /\ ultima_op.esito = "ValueError"
    /\ ultima_op.valore = 2
    /\ DOMAIN stato # {}

\* C9: in a run, the rows of a component that had a state before the run carry
\* the code_12nc an earlier run was last given for it when the request gives
\* none, and the request's code_12nc when it gives one.
C9_CodeRiusato ==
    pc \in {"loop", "sync"}
    => \A n \in DOMAIN stato_pre : \A r \in 1..Len(righe) :
          righe[r].nome = n
          => /\ (\A i \in 1..Len(richiesti) :
                    richiesti[i].nome = n => richiesti[i].code_12nc = None)
                => righe[r].code_12nc = code_fornito[n]
             /\ \A c \in Codici :
                   (\A i \in 1..Len(richiesti) :
                       richiesti[i].nome = n => richiesti[i].code_12nc = c)
                   => righe[r].code_12nc = c

\* C11: when a batch run returns, every component of its list that has a
\* registry entry has there sn_iniziale = ultimo_sn + 1 of its stored state,
\* which is the counter the next genera_serial_number call without
\* sn_iniziale would issue for it; the registry file holds the same.
C11_SnInizialeAllineato ==
    [][(pc = "sync" /\ pc' = "idle")
        => /\ \A i \in 1..Len(richiesti) :
                 LET nome == richiesti[i].nome
                     k == cerca_componente_per_nome(componenti', nome)
                 IN  k # 0
                     => /\ nome \in DOMAIN stato'
                        /\ componenti'[k].sn_iniziale = <<stato'[nome].ultimo_sn + 1>>
                        /\ componenti'[k].sn_iniziale =
                              <<numero_incrementale(stato', nome, Nessuno)>>
           /\ file_componenti' = componenti']_vars

\* a run over both components has returned: SENSOR stands at 2 in the
\* allocator and at 3 in the registry, RELAY at 1 and at 2
C11_Testimone ==
    /\ pc = "idle"
    /\ ultima_op.op = "crea_documento_con_componenti"
    /\ ultima_op.esito = "ok"
    /\ DOMAIN stato = {"SENSOR", "RELAY"}
    /\ stato["SENSOR"].ultimo_sn = 2
    /\ stato["RELAY"].ultimo_sn = 1
    /\ componenti[1].sn_iniziale = <<3>>
    /\ componenti[2].sn_iniziale = <<2>>

\* the last entry of the request that names nome
C12_ultima_voce(nome) ==
    CHOOSE i \in 1..Len(richiesti) :
        /\ richiesti[i].nome = nome
        /\ \A j \in (i + 1)..Len(richiesti) : richiesti[j].nome # nome

\* C12: when a batch run returns, every component of its list that has a
\* registry entry has there the inizio_indicizzazione_prefisso the request
\* gave for it (the last entry's, if the list names it more than once),
\* whatever the registry held before: None when the request gave none.
C12_IndiceSovrascritto ==
    [][(pc = "sync" /\ pc' = "idle")
        => \A i \in 1..Len(richiesti) :
              LET nome == richiesti[i].nome
                  k == cerca_componente_per_nome(componenti', nome)
              IN  k # 0
                  => componenti'[k].inizio_indicizzazione_prefisso =
                        richiesti[C12_ultima_voce(nome)].inizio_indicizzazione_prefisso]_vars

\* a run has returned that found the list [1, 3, 5] stored for SENSOR and an
\* int for RELAY, and has left None for both
C12_Testimone ==
    /\ pc = "idle"
    /\ ultima_op.op = "crea_documento_con_componenti"
    /\ ultima_op.esito = "ok"
    /\ componenti_pre[1].nome = "SENSOR"
    /\ componenti_pre[1].inizio_indicizzazione_prefisso = PolicyList(<<1, 3, 5>>)
    /\ componenti_pre[2].inizio_indicizzazione_prefisso = PolicyInt(7)
    /\ componenti[1].nome = "SENSOR"
    /\ componenti[1].inizio_indicizzazione_prefisso = PolicyNone
    /\ componenti[2].inizio_indicizzazione_prefisso = PolicyNone

\* C13: in a run over components of distinct names the position elemento_idx
\* of a row is its 0-based place among the units of its component in its bus,
\* so it restarts at 0 on every bus, while the counter of the serial goes on
\* from bus to bus; two rows of one component at the same position carry the
\* same tipo_scheda and the same numero_indic whatever their bus; and with
\* quantita 1, indicizzazione on and no inizio_indicizzazione_prefisso every
\* row of the component carries prefisso + "1".
C13_IndicePerBus ==
    (pc \in {"loop", "sync"} /\ C7_nomi_distinti)
    => /\ \A r \in 1..Len(righe) :
             LET i == (r - 1) \div C7_unita(Len(richiesti))
                 resto == (r - 1) % C7_unita(Len(richiesti))
                 j == C7_voce(resto)
                 p == resto - C7_unita(j - 1)
             IN  /\ righe[r].elemento_idx = p
                 /\ righe[r].sn =
                       formato_sn(oggi, C7_inizio(j) + i * richiesti[j].quantita + p)
                 /\ (/\ richiesti[j].quantita = 1
                     /\ richiesti[j].indicizzazione
                     /\ Truthy(richiesti[j].prefisso_tipo_scheda)
                     /\ richiesti[j].inizio_indicizzazione_prefisso = PolicyNone)
                    => /\ righe[r].tipo_scheda = <<richiesti[j].prefisso_tipo_scheda, "1">>
                       /\ righe[r].sn = formato_sn(oggi, C7_inizio(j) + i)
       /\ \A r1, r2 \in 1..Len(righe) :
             (/\ righe[r1].nome = righe[r2].nome
              /\ righe[r1].elemento_idx = righe[r2].elemento_idx)
             => /\ righe[r1].tipo_scheda = righe[r2].tipo_scheda
                /\ righe[r1].numero_indic = righe[r2].numero_indic

\* the loop of a run of two buses is over: one SENSOR per bus, first ever
\* allocation, no sn_iniziale, no inizio_indicizzazione_prefisso; bus 5 has
\* counter 0 and SU1, bus 6 has counter 1 and SU1
C13_Testimone ==
    /\ pc = "sync"
    /\ numero_bus = 2
    /\ "SENSOR" \notin DOMAIN stato_pre
    /\ richiesti = <<RichiestoIndice("SENSOR", 1, Nessuno, "SU", TRUE, PolicyNone)>>
    /\ Len(righe) = 2
    /\ righe[1].bus = 5
    /\ righe[1].sn = formato_sn(oggi, 0)
    /\ righe[1].tipo_scheda = <<"SU", "1">>
    /\ righe[2].bus = 6
    /\ righe[2].sn = formato_sn(oggi, 1)
    /\ righe[2].tipo_scheda = <<"SU", "1">>

\* the numero_indic of the first n rows
C14_indici(n) == [r \in 1..n |-> righe[r].numero_indic]

\* C14: the numero_indic computed for a unit at position p of a component
\* whose inizio_indicizzazione_prefisso is z is p + 1 when z is None, o + p
\* when z is the int o, and L[p mod len(L)] when z is the non-empty list L:
\* [1, 3, 5] gives 1, 3, 5, 1 at positions 0..3 and 7 gives 7, 8, 9 at 0..2.
C14_NumeroIndic ==
    (pc \in {"loop", "sync"} /\ C7_nomi_distinti)
    => \A r \in 1..Len(righe) :
          LET j == C7_voce((r - 1) % C7_unita(Len(richiesti)))
              z == richiesti[j].inizio_indicizzazione_prefisso
              p == righe[r].elemento_idx
              L == z.lista
          IN  righe[r].numero_indic # Nessuno
              => /\ z = PolicyNone => righe[r].numero_indic = <<p + 1>>
                 /\ z.tipo = "int" => righe[r].numero_indic = <<z.num + p>>
                 /\ (z.tipo = "list" /\ L # <<>>)
                    => righe[r].numero_indic = <<L[(p % Len(L)) + 1]>>
                 /\ (z = PolicyList(<<1, 3, 5>>) /\ r <= richiesti[j].quantita /\ r <= 4)
                    => C14_indici(r) = SubSeq(<<<<1>>, <<3>>, <<5>>, <<1>>>>, 1, r)
                 /\ (z = PolicyInt(7) /\ r <= richiesti[j].quantita /\ r <= 3)
                    => C14_indici(r) = SubSeq(<<<<7>>, <<8>>, <<9>>>>, 1, r)

\* the loop of a run is over that made four units of SENSOR in one bus with
\* the list [1, 3, 5]: the indexes are 1, 3, 5, 1
C14_Testimone ==
    /\ pc = "sync"
    /\ Len(richiesti) = 1
    /\ richiesti[1].inizio_indicizzazione_prefisso = PolicyList(<<1, 3, 5>>)
    /\ richiesti[1].quantita = 4
    /\ Len(righe) = 4
    /\ C14_indici(4) = <<<<1>>, <<3>>, <<5>>, <<1>>>>

\* C15: the tipo_scheda of a row is the prefisso_tipo_scheda alone when
\* indicizzazione is off, empty when the prefisso_tipo_scheda is empty or
\* None, and otherwise the prefisso_tipo_scheda followed by the decimal
\* digits of the numero_indic computed for the row.
C15_TipoScheda ==
    (pc \in {"loop", "sync"} /\ C7_nomi_distinti)
    => \A r \in 1..Len(righe) :
          LET j == C7_voce((r - 1) % C7_unita(Len(richiesti)))
              prefisso == richiesti[j].prefisso_tipo_scheda
          IN  /\ (prefisso = None \/ prefisso = "") => righe[r].tipo_scheda = <<>>
              /\ (~richiesti[j].indicizzazione /\ prefisso # None /\ prefisso # "")
                 => righe[r].tipo_scheda = <<prefisso>>
              /\ (richiesti[j].indicizzazione /\ prefisso # None /\ prefisso # "")
                 => /\ righe[r].numero_indic # Nessuno
                    /\ righe[r].tipo_scheda =
                          <<prefisso>> \o str(righe[r].numero_indic[1])
                    /\ righe[r].numero_indic = <<10>>
                       => righe[r].tipo_scheda = <<prefisso, "1", "0">>

\* the loop of a run is over that wrote four rows of SENSOR with prefix SU and
\* offset 7, labelled SU7, SU8, SU9, SU10
C15_Testimone ==
    /\ pc = "sync"
    /\ Len(righe) = 4
    /\ richiesti[1].inizio_indicizzazione_prefisso = PolicyInt(7)
    /\ righe[1].tipo_scheda = <<"SU", "7">>
    /\ righe[4].tipo_scheda = <<"SU", "1", "0">>

\* the letter of each month
C16_lettera ==
    [m \in 1..12 |->
        CASE m = 1 -> "A" [] m = 2 -> "B" [] m = 3 -> "C" [] m = 4 -> "D"
          [] m = 5 -> "E" [] m = 6 -> "F" [] m = 7 -> "G" [] m = 8 -> "H"
          [] m = 9 -> "I" [] m = 10 -> "J" [] m = 11 -> "K" [] m = 12 -> "L"]

\* the decimal digit of weight 10^k of n
C16_cifra(n, k) == cifre[((n \div (10 ^ k)) % 10) + 1]

\* C16: a genera_serial_number call made in month m of a year whose last two
\* digits are yy, issuing a counter n in 0..99999, returns the m-th letter of
\* A..L, yy as two digits, a space and n as five digits with leading zeros
\* (month 10 of 2025 and counter 138 give "J25 00138"), and n is the
\* ultimo_sn the call stores.
C16_FormatoSn ==
    [][(E_genera(ultima_op', "SENSOR") /\ ultima_op'.valore \in 0..99999)
        => LET n == ultima_op'.valore
               yy == oggi.anno % 100
           IN  /\ ultima_op'.sn =
                     <<C16_lettera[oggi.mese], C16_cifra(yy, 1), C16_cifra(yy, 0), " ",
                       C16_cifra(n, 4), C16_cifra(n, 3), C16_cifra(n, 2),
                       C16_cifra(n, 1), C16_cifra(n, 0)>>
               /\ stato'["SENSOR"].ultimo_sn = n
               /\ (oggi = [anno |-> 2025, mese |-> 10] /\ n = 138)
                  => ultima_op'.sn = <<"J", "2", "5", " ", "0", "0", "1", "3", "8">>]_vars

\* a call in October 2025 has just issued counter 138 and returned J25 00138
C16_Testimone ==
    /\ ultima_op.op = "genera_serial_number"
    /\ oggi = [anno |-> 2025, mese |-> 10]
    /\ ultima_op.valore = 138
    /\ stato["SENSOR"].ultimo_sn = 138
    /\ ultima_op.sn = <<"J", "2", "5", " ", "0", "0", "1", "3", "8">>

\* C17: every serial genera_serial_number returns, whatever counter it
\* issues, is a letter of A..L, two digits, a space and exactly five digits.
C17_FormaSempre ==
    ultima_op.op = "genera_serial_number"
    => /\ Len(ultima_op.sn) = 9
       /\ ultima_op.sn[1] \in {lettere[m] : m \in 1..12}
       /\ ultima_op.sn[4] = " "
       /\ \A i \in {2, 3, 5, 6, 7, 8, 9} :
             ultima_op.sn[i] \in {cifre[k] : k \in 1..10}

\* C18: get_ultimo_sn(d) returns the stored ultimo_sn when d has a state and
\* -1 when it has none; -1 is never the ultimo_sn of a stored state, so
\* get_ultimo_sn(d) = -1 exactly when no call was ever made for d; and right
\* after a genera_serial_number call for d it is the counter the call issued.
C18_SentinellaMenoUno ==
    /\ \A d \in Nomi : (get_ultimo_sn(stato, d) = -1) <=> (d \notin DOMAIN stato)
    /\ ultima_op.op = "get_ultimo_sn"
       => ultima_op.valore =
             IF ultima_op.nome \in DOMAIN stato
             THEN stato[ultima_op.nome].ultimo_sn ELSE -1
    /\ ultima_op.op = "genera_serial_number"
       => get_ultimo_sn(stato, ultima_op.nome) = ultima_op.valore

\* some entry of the registry is named nome
C19_presente(nome) == \E i \in 1..Len(componenti) : componenti[i].nome = nome

\* C19: aggiungi_componente returns False and leaves the registry, in memory
\* and on file, as it was when an entry of that name is there; otherwise it
\* appends the new entry at the end, writes the file and returns True.
C19_AggiungiComponente ==
    [][\A componente \in DefinizioniRegistro :
          AggiungiComponente(componente, TRUE)
          => IF C19_presente(componente.nome)
             THEN /\ ultima_op'.esito = "False"
                  /\ componenti' = componenti
                  /\ file_componenti' = file_componenti
             ELSE /\ ultima_op'.esito = "True"
                  /\ componenti' = componenti \o <<componente>>
                  /\ file_componenti' = componenti']_vars

\* an add of SENSOR has just been refused by a registry of two entries whose
\* SENSOR carries the code XYZ789
C19_Testimone ==
    /\ ultima_op.op = "aggiungi_componente"
    /\ ultima_op.nome = "SENSOR"
    /\ ultima_op.esito = "False"
    /\ Len(componenti) = 2
    /\ componenti[2].nome = "SENSOR"
    /\ componenti[2].code_12nc = "XYZ789"
    /\ file_componenti = componenti

\* the entries of comps not named nome, in their order
RECURSIVE C20_altri(_, _)
C20_altri(comps, nome) ==
    IF comps = <<>> THEN <<>>
    ELSE (IF Head(comps).nome = nome THEN <<>> ELSE <<Head(comps)>>)
            \o C20_altri(Tail(comps), nome)

\* C20: modifica_componente, elimina_componente and aggiorna_sn_iniziale
\* return False and leave the registry, in memory and on file, as it was when
\* no entry has the given name. When one has, they return True and write the
\* file; modifica_componente puts the new record in the place of the first
\* entry named nome_originale and leaves every other entry as it was;
\* elimina_componente leaves no entry of that name and the others in order.
C20_NomeAssente ==
    [][/\ \A nome \in Nomi, componente \in DefinizioniRegistro :
             ModificaComponente(nome, componente, TRUE)
             => IF ~C19_presente(nome)
                THEN /\ ultima_op'.esito = "False"
                     /\ componenti' = componenti
                     /\ file_componenti' = file_componenti
                ELSE /\ ultima_op'.esito = "True"
                     /\ Len(componenti') = Len(componenti)
                     /\ \E i \in 1..Len(componenti) :
                           /\ componenti[i].nome = nome
                           /\ \A j \in 1..(i - 1) : componenti[j].nome # nome
                           /\ componenti'[i] = componente
                           /\ \A j \in 1..Len(componenti) :
                                 j # i => componenti'[j] = componenti[j]
                     /\ file_componenti' = componenti'
       /\ \A nome \in Nomi :
             EliminaComponente(nome, TRUE)
             => IF ~C19_presente(nome)
                THEN /\ ultima_op'.esito = "False"
                     /\ componenti' = componenti
                     /\ file_componenti' = file_componenti
                ELSE /\ ultima_op'.esito = "True"
                     /\ \A i \in 1..Len(componenti') : componenti'[i].nome # nome
                     /\ componenti' = C20_altri(componenti, nome)
                     /\ file_componenti' = componenti'
       /\ \A nome \in Nomi, nuovo_sn \in SnRegistro :
             AggiornaSnIniziale(nome, nuovo_sn, TRUE)
             => IF ~C19_presente(nome)
                THEN /\ ultima_op'.esito = "False"
                     /\ componenti' = componenti
                     /\ file_componenti' = file_componenti
                ELSE /\ ultima_op'.esito = "True"
                     /\ file_componenti' = componenti']_vars

\* an update of SENSOR has just returned True on a registry of two entries:
\* RELAY first, then the entry that took SENSOR's place with the code XYZ789
C20_Testimone ==
    /\ ultima_op.op = "modifica_componente"
    /\ ultima_op.nome = "SENSOR"
    /\ ultima_op.esito = "True"
    /\ Len(componenti) = 2
    /\ componenti[1].nome = "RELAY"
    /\ componenti[2].nome = "SENSOR"
    /\ componenti[2].code_12nc = "XYZ789"
    /\ componenti[2].sn_iniziale = Nessuno
    /\ componenti[1].sn_iniziale = <<2>>

\* C21: starting from a registry of distinct names, no sequence of
\* aggiungi_componente, modifica_componente (renames included),
\* elimina_componente, aggiorna_sn_iniziale and write-backs leaves two registry
\* entries of the same name.
C21_NomiDistinti ==
    \A i, j \in 1..Len(componenti) : i # j => componenti[i].nome # componenti[j].nome

\* C22: nothing a caller does to the list ottieni_tutti_componenti returned,
\* or to the records in it (appending, removing, assigning a field of a
\* record), changes what cerca_componente_per_nome or a later
\* ottieni_tutti_componenti returns.
C22_Istantanea ==
    [][ultima_op'.op \in {"elenco.append", "elenco.pop", "elenco[i]['code_12nc'] ="}
        => /\ componenti' = componenti
           /\ ottieni_tutti_componenti(componenti') = ottieni_tutti_componenti(componenti)
           /\ \A nome \in Nomi :
                 LET k == cerca_componente_per_nome(componenti, nome)
                 IN  /\ cerca_componente_per_nome(componenti', nome) = k
                     /\ k # 0 => componenti'[k] = componenti[k]]_vars

\* C23: a successful aggiorna_sn_iniziale(nome, nuovo_sn) changes only the
\* sn_iniziale of the first entry named nome: that entry's other fields, every
\* other entry, the order of the entries and the allocator's stato are as
\* before, and the registry file equals the registry when the call returns.
C23_SoloSnIniziale ==
    [][\A nome \in Nomi, nuovo_sn \in 1..(MaxSn + 1) :
          (AggiornaSnIniziale(nome, nuovo_sn, TRUE) /\ ultima_op'.esito = "True")
          => LET i == cerca_componente_per_nome(componenti, nome)
             IN  /\ Len(componenti') = Len(componenti)
                 /\ componenti'[i].sn_iniziale = <<nuovo_sn>>
                 /\ \A k \in DOMAIN componenti[i] \ {"sn_iniziale"} :
                       componenti'[i][k] = componenti[i][k]
                 /\ DOMAIN componenti'[i] = DOMAIN componenti[i]
                 /\ \A j \in 1..Len(componenti) : j # i => componenti'[j] = componenti[j]
                 /\ stato' = stato
                 /\ file_stato' = file_stato
                 /\ file_componenti' = componenti']_vars

\* an entry's sn_iniziale has just been set while the registry holds another
\* entry and the allocator holds state for both names
C23_Testimone ==
    /\ ultima_op.op = "aggiorna_sn_iniziale"
    /\ ultima_op.esito = "True"
    /\ ultima_op.nome = "RELAY"
    /\ Len(componenti) = 2
    /\ componenti[1].nome = "SENSOR"
    /\ componenti[1].sn_iniziale # <<2>>
    /\ componenti[2].nome = "RELAY"
    /\ componenti[2].sn_iniziale = <<2>>
    /\ DOMAIN stato = Nomi

C24_campi ==
    {"nome", "code_12nc", "sn_iniziale", "prefisso_tipo_scheda", "indicizzazione",
     "inizio_indicizzazione_prefisso"}

\* C24: loading a registry file some of whose entries have no
\* 'inizio_indicizzazione_prefisso' gives a registry in which every entry has
\* it, None for the entries that lacked it, with every other field as stored,
\* and rewrites the file at once so that it equals the registry; loading the
\* rewritten file again gives the same registry and rewrites nothing.
C24_Migrazione ==
    [][Riavvia(TRUE)
        => /\ Len(componenti') = Len(file_componenti)
           /\ \A i \in 1..Len(file_componenti) :
                 /\ DOMAIN componenti'[i] = C24_campi
                 /\ \A k \in DOMAIN file_componenti[i] :
                       componenti'[i][k] = file_componenti[i][k]
                 /\ "inizio_indicizzazione_prefisso" \notin DOMAIN file_componenti[i]
                       => componenti'[i].inizio_indicizzazione_prefisso = PolicyNone
           /\ file_componenti' = componenti'
           /\ ultima_op'.valore = 1 <=> file_componenti' # file_componenti
           /\ carica_componenti(file_componenti') = componenti'
           /\ ~migrazione_necessaria(file_componenti')]_vars

\* a file of one old entry and one current entry has just been loaded and
\* rewritten
C24_Testimone ==
    /\ ultima_op.op = "riavvio"
    /\ ultima_op.valore = 1
    /\ Len(componenti) = 2
    /\ componenti[1].nome = "SENSOR"
    /\ componenti[1].sn_iniziale = <<1>>
    /\ componenti[1].inizio_indicizzazione_prefisso = PolicyNone
    /\ componenti[2] = Definizione("RELAY", "ABC123")
    /\ file_componenti = componenti

\* C25: when the write of the file fails during genera_serial_number or a
\* registry operation, the call does not return normally; so after a call that
\* returned normally the files hold what memory holds.
C25_ErroreDiPersistenza ==
    (/\ ultima_op.op \in {"genera_serial_number", "aggiungi_componente",
                          "modifica_componente", "elimina_componente",
                          "aggiorna_sn_iniziale"}
     /\ ultima_op.esito \in {"ok", "True"})
    => (file_stato = stato /\ file_componenti = componenti)

\* C26: a run whose list gives some component an inizio_indicizzazione_prefisso
\* that is neither an integer nor a list of integers fails before it changes
\* anything, also when that component comes after well-formed ones: while
\* such a run is in progress stato and the registry are as the run found them,
\* and the registry never holds the malformed value.
C26_FallisceSenzaMutare ==
    /\ (\E i \in 1..Len(richiesti) :
           richiesti[i].inizio_indicizzazione_prefisso = PolicyTesto)
       => (stato = stato_pre /\ file_stato = stato_pre /\ componenti = componenti_pre)
    /\ \A i \in 1..Len(componenti) :
           componenti[i].inizio_indicizzazione_prefisso # PolicyTesto

\* C27: with every write succeeding, whenever the process is running the
\* state file equals stato and the registry file equals the registry, also
\* between two units of a run; and a restart at any point gives back the same
\* stato and the same registry, so that the next call without sn_iniziale
\* issues for every description the counter it would have issued without the
\* restart.
C27_RiavvioFedele ==
    [][/\ pc' # "spento" => (file_stato' = stato' /\ file_componenti' = componenti')
       /\ (Riavvia(TRUE) /\ pc # "spento")
          => /\ stato' = stato
             /\ componenti' = componenti
             /\ \A d \in Nomi :
                   numero_incrementale(stato', d, Nessuno)
                      = numero_incrementale(stato, d, Nessuno)]_vars

\* the process was restarted between the two units of a run, after SENSOR's
\* first counter was issued
C27_Testimone ==
    /\ ultima_op.op = "riavvio"
    /\ ultima_op.nome = "loop"
    /\ "SENSOR" \in DOMAIN stato
    /\ stato["SENSOR"].ultimo_sn = 0
    /\ numero_incrementale(stato, "SENSOR", Nessuno) = 1
    /\ Len(componenti) = 2

\* C28: no step of the running process (allocation, run, write-back, registry
\* operation, elimina_componente or a rename of the component of that name
\* included) removes a description from stato, and the only entry of stato a
\* step changes is that of the description a genera_serial_number call of that
\* step is for.
C28_StatoNonSiRiduce ==
    [][pc # "spento"
        => \A d \in DOMAIN stato :
              /\ d \in DOMAIN stato'
              /\ stato'[d] # stato[d]
                    => (ultima_op'.op = "genera_serial_number" /\ ultima_op'.nome = d)]_vars

\* the registry entry RELAY has just been removed while stato holds RELAY and
\* SENSOR
C28_Testimone ==
    /\ ultima_op.op = "elimina_componente"
    /\ ultima_op.esito = "True"
    /\ ultima_op.nome = "RELAY"
    /\ cerca_componente_per_nome(componenti, "RELAY") = 0
    /\ DOMAIN stato = Nomi
    /\ stato["RELAY"].ultimo_sn = 1

C30_fissi == {"nome", "code_12nc", "prefisso_tipo_scheda", "indicizzazione"}

\* C30: the write-back at the end of a run leaves the registry with the same
\* entries in the same order; of an entry it changes nothing but sn_iniziale
\* and inizio_indicizzazione_prefisso, so nome, code_12nc,
\* prefisso_tipo_scheda and indicizzazione are what they were when the run
\* began, whatever the request carried; an entry whose name is not in the
\* request is untouched, and a requested component that the registry does not
\* hold is skipped.
C30_SoloSnEIndice ==
    [][Sincronizza(TRUE)
        => /\ componenti = componenti_pre
           /\ Len(componenti') = Len(componenti)
           /\ \A i \in 1..Len(componenti) :
                 /\ \A k \in C30_fissi : componenti'[i][k] = componenti_pre[i][k]
                 /\ (\A j \in 1..Len(richiesti) : richiesti[j].nome # componenti[i].nome)
                       => componenti'[i] = componenti[i]
           /\ \A j \in 1..Len(richiesti) :
                 cerca_componente_per_nome(componenti, richiesti[j].nome) = 0
                    => cerca_componente_per_nome(componenti', richiesti[j].nome) = 0]_vars

\* a run of SENSOR whose request gave prefix 'RL' without indicizzazione has
\* just written back to a registry that holds SENSOR with prefix 'SU' and
\* indicizzazione, and RELAY
C30_Testimone ==
    /\ ultima_op.op = "crea_documento_con_componenti"
    /\ ultima_op.esito = "ok"
    /\ Len(componenti) = 2
    /\ componenti[1].nome = "SENSOR"
    /\ componenti[1].sn_iniziale = <<2>>
    /\ componenti[1].inizio_indicizzazione_prefisso = PolicyInt(7)
    /\ componenti[1].prefisso_tipo_scheda = "SU"
    /\ componenti[1].indicizzazione
    /\ componenti[2].nome = "RELAY"
    /\ componenti[2].inizio_indicizzazione_prefisso = PolicyNone

\* C29: of two GestoreSerialNumber that loaded the same file, each issues for
\* a call without sn_iniziale the counter after the ultimo_sn of its own stato
\* (0 when its stato has none), whatever the other has issued and the file now
\* holds, rewrites the whole file from its own stato and leaves the other's
\* stato alone; so a state is reachable in which the same counter has been
\* issued twice for one description.
C29_OgnunoDalProprioStato ==
    [][\A d \in Nomi :
          /\ GeneraPrima(d, "ABC123", TRUE)
                => /\ ultima_op'.valore =
                         (IF d \in DOMAIN stato THEN stato[d].ultimo_sn + 1 ELSE 0)
                   /\ stato'[d].ultimo_sn = ultima_op'.valore
                   /\ file_stato' = stato'
                   /\ stato_due' = stato_due
          /\ GeneraSeconda(d, "ABC123", TRUE)
                => /\ ultima_op'.valore =
                         (IF d \in DOMAIN stato_due THEN stato_due[d].ultimo_sn + 1 ELSE 0)
                   /\ stato_due'[d].ultimo_sn = ultima_op'.valore
                   /\ file_stato' = stato_due'
                   /\ stato' = stato]_vars

\* the second instance has just issued for SENSOR the counter 1 that the first
\* instance had issued already
C29_Testimone ==
    /\ ultima_op.op = "genera_serial_number (2)"
    /\ ultima_op.nome = "SENSOR"
    /\ ultima_op.valore = 1
    /\ "SENSOR" \in DOMAIN stato
    /\ stato["SENSOR"].ultimo_sn = 1
    /\ stato_due["SENSOR"].ultimo_sn = 1
    /\ riemesso
    /\ <<"SENSOR", formato_sn(oggi, 1)>> \in emessi

====
